---- MODULE Spec2Model ----
(***************************************************************************)
(* Model of the event back end of cyo_api: the proximity recommendation    *)
(* pipeline (bounding-box prefilter, haversine distance, ranking,          *)
(* pagination) of app/routers/events.py and app/utils/distance.py, and the *)
(* paginated event listings.                                               *)
(*                                                                         *)
(* Numbers.  The code computes in IEEE doubles; the model computes in      *)
(* fixed point inside TLC's 32-bit integers:                               *)
(*   coordinates    1e-4 degree   (28.6139 deg  is  286139)                *)
(*   angles         1e-8 radian                                            *)
(*   sin, cos       scale 1e8     (1.0  is  100000000)                     *)
(*   distances      metres        (70 km  is  70000)                       *)
(* Products of two scale-1e8 numbers are kept as two-limb numbers          *)
(* <<hi, lo>> = hi * 1e8 + lo, so no intermediate value overflows.  The    *)
(* computed distance is within 2 m of the double result for points less    *)
(* than 10000 km apart.                                                    *)
(***************************************************************************)
EXTENDS Integers, Sequences, FiniteSets, TLC

(***************************************************************************)
(* Fixed-point arithmetic                                                  *)
(***************************************************************************)
Limb == 100 * 100
Scale == Limb * Limb

Abs(x) == IF x < 0 THEN -x ELSE x
Max(a, b) == IF a >= b THEN a ELSE b
Min(a, b) == IF a <= b THEN a ELSE b

\* a * b as a two-limb number <<hi, lo>>, for 0 <= a, b < 2^31 with a * b < 2^31 * 1e8
WMul(a, b) ==
    LET ah == a \div Limb
        al == a % Limb
        bh == b \div Limb
        bl == b % Limb
        mid == ah * bl + al * bh
        lo == (mid % Limb) * Limb + al * bl
    IN  <<ah * bh + mid \div Limb + lo \div Scale, lo % Scale>>

\* floor(a * b / 1e8): the product of two scale-1e8 numbers, at scale 1e8
MulS(a, b) == WMul(a, b)[1]

WAdd(p, q) == <<p[1] + q[1] + (p[2] + q[2]) \div Scale, (p[2] + q[2]) % Scale>>

\* floor(c * p / 1e8) for a scale-1e8 number c and a two-limb number p
WScale(c, p) == WAdd(WMul(c, p[1]), <<0, MulS(c, p[2])>>)

WGeq(p, q) == p[1] > q[1] \/ (p[1] = q[1] /\ p[2] >= q[2])

\* pi and pi/2 in 1e-8 radian
PiRad == 314159265
HalfPiRad == 157079633
\* pi/180 * 1e4 at scale 1e6: 1e-8 radian per 1e-4 degree
RadPerUnit == 174532925

\* np.radians on a coordinate in 1e-4 degree; the result is in 1e-8 radian
Radians(d) ==
    LET r == MulS(Abs(d) * 100, RadPerUnit)
    IN  IF d >= 0 THEN r ELSE -r

\* The Taylor series of sin in Horner form:
\*   sin x = x (1 - x^2/6 (1 - x^2/20 (1 - x^2/42 (... (1 - x^2/210)))))
RECURSIVE SinHorner(_, _, _)
SinHorner(x2, k, t) ==
    IF k = 0 THEN t
    ELSE SinHorner(x2, k - 1, Scale - MulS(x2, t) \div ((2 * k) * (2 * k + 1)))

\* sin on [0, pi/2]
SinQ(x) == MulS(x, SinHorner(MulS(x, x), 7, Scale))

\* np.sin on [0, pi]
Sin(x) == IF x <= HalfPiRad THEN SinQ(x) ELSE SinQ(Max(0, PiRad - x))

\* np.cos on [-pi/2, pi/2]
Cos(x) == SinQ(HalfPiRad - Abs(x))

\* The least x in lo..hi with P(x), for P monotone (FALSE then TRUE); hi if none
RECURSIVE LeastSuch(_, _, _)
LeastSuch(P(_), lo, hi) ==
    IF lo >= hi THEN lo
    ELSE LET mid == (lo + hi) \div 2
         IN  IF P(mid) THEN LeastSuch(P, lo, mid) ELSE LeastSuch(P, mid + 1, hi)

\* np.sqrt of a two-limb number at scale 1e16; the result is at scale 1e8
Sqrt(a) ==
    LET P(r) == WGeq(WMul(r, r), a)
    IN  LeastSuch(P, 0, Scale)

\* np.arcsin on [0, 1] at scale 1e8; the result is in 1e-8 radian
Arcsin(h) ==
    LET P(x) == SinQ(x) >= h
    IN  LeastSuch(P, 0, HalfPiRad)

\* Earth radius, in metres (R = 6371 km)
R == 6371000

\* The same with cos(lat1)^2 for cos(lat1) cos(lat2)
HaversineAOneSided(lat1, lon1, lat2, lon2) ==
    LET dlat == lat2 - lat1
        dlon == lon2 - lon1
        s1 == Sin(Abs(dlat) \div 2)
        s2 == Sin(Abs(dlon) \div 2)
    IN  WAdd(WMul(s1, s1), WScale(MulS(Cos(lat1), Cos(lat1)), WMul(s2, s2)))

\* a = sin(dlat/2)^2 + cos(lat1) cos(lat2) sin(dlon/2)^2, as a two-limb number
HaversineA(lat1, lon1, lat2, lon2) ==
    LET dlat == lat2 - lat1
        dlon == lon2 - lon1
        s1 == Sin(Abs(dlat) \div 2)
        s2 == Sin(Abs(dlon) \div 2)
    IN  WAdd(WMul(s1, s1), WScale(MulS(Cos(lat1), Cos(lat2)), WMul(s2, s2)))

\* The distance rounded up to the next metre
HaversineRoundedUp(lat1, lon1, lat2, lon2) ==
    LET a == HaversineA(Radians(lat1), Radians(lon1), Radians(lat2), Radians(lon2))
        c == 2 * Arcsin(Sqrt(a))
    IN  MulS(c, R) + 1

\* haversine_distance: coordinates in 1e-4 degree, the result in metres
haversine_distance(lat1, lon1, lat2, lon2) ==
    LET a == HaversineA(Radians(lat1), Radians(lon1), Radians(lat2), Radians(lon2))
        c == 2 * Arcsin(Sqrt(a))
    IN  MulS(c, R)

(***************************************************************************)
(* Text.  A string is a tuple of one-character strings, so that lower(),   *)
(* strip() and ILIKE are computed and not assumed.                         *)
(***************************************************************************)
UpperChars == <<"A", "G", "I", "J", "M", "R", "T", "U", "N", "D", "E", "V">>
LowerChars == <<"a", "g", "i", "j", "m", "r", "t", "u", "n", "d", "e", "v">>

\* str.lower / SQL lower() on one character
LowerChar(c) ==
    IF \E i \in 1..Len(UpperChars) : UpperChars[i] = c
    THEN LowerChars[CHOOSE i \in 1..Len(UpperChars) : UpperChars[i] = c]
    ELSE c

Lower(s) == [i \in 1..Len(s) |-> LowerChar(s[i])]

\* str.strip: leading and trailing blanks removed
RECURSIVE Strip(_)
Strip(s) ==
    IF s = <<>> THEN s
    ELSE IF Head(s) = " " THEN Strip(Tail(s))
    ELSE IF s[Len(s)] = " " THEN Strip(SubSeq(s, 1, Len(s) - 1))
    ELSE s

\* title ILIKE '%query%'
ILikeContains(title, query) ==
    \E i \in 1..(Len(title) - Len(query) + 1) :
        SubSeq(Lower(title), i, i + Len(query) - 1) = Lower(query)

(***************************************************************************)
(* Reference data: the pincodes table (app/models/pincode.py), loaded once *)
(* and never written by a request handler.  Coordinates in 1e-4 degree.    *)
(***************************************************************************)
PIN_HOME == "110001"     \* the reference user's own pincode (New Delhi)
PIN_NEAR == "110085"     \* 9.6 km from PIN_HOME
PIN_FAR == "248001"      \* 172 km from PIN_HOME
PIN_EDGE_IN == "132103"  \* 69.997 km due north of PIN_HOME
PIN_EDGE_OUT == "132104" \* 70.008 km due north of PIN_HOME
PIN_EAST == "203001"     \* 69.960 km due east of PIN_HOME
PIN_UNKNOWN == "999999"  \* a pincode with no row in the table

PincodeTable ==
    (PIN_HOME :> [latitude |-> 286139, longitude |-> 772090]) @@
    (PIN_NEAR :> [latitude |-> 287000, longitude |-> 772000]) @@
    (PIN_FAR :> [latitude |-> 300000, longitude |-> 780000]) @@
    (PIN_EDGE_IN :> [latitude |-> 292434, longitude |-> 772090]) @@
    (PIN_EDGE_OUT :> [latitude |-> 292435, longitude |-> 772090]) @@
    (PIN_EAST :> [latitude |-> 286139, longitude |-> 779257])

\* The rows of the pincodes table, as db.query(Pincode) returns them
PincodeRows ==
    {[pincode |-> p, latitude |-> PincodeTable[p].latitude,
      longitude |-> PincodeTable[p].longitude] : p \in DOMAIN PincodeTable}

\* The coordinates of the table
Coordinates == {<<r.latitude, r.longitude>> : r \in PincodeRows}

\* Every distance the handlers ask for, computed once
HaversineCache ==
    [a \in Coordinates, b \in Coordinates |-> haversine_distance(a[1], a[2], b[1], b[2])]

\* haversine_distance between two coordinates of the table
Distance(lat1, lon1, lat2, lon2) == HaversineCache[<<lat1, lon1>>, <<lat2, lon2>>]

(***************************************************************************)
(* sort_events_by_distance (app/utils/distance.py).  A DataFrame is a      *)
(* sequence of rows.                                                       *)
(***************************************************************************)
\* The missing value a left merge leaves where no pincode row matches: no coordinate
NaN == 2147483647

\* events_df.merge(pincodes_df[[pincode, latitude, longitude]], on=pincode, how=left)
MergeLeft(events_df, pincodes_df) ==
    [i \in 1..Len(events_df) |->
        LET hit == {r \in pincodes_df : r.pincode = events_df[i].pincode}
        IN  IF hit = {}
            THEN [id |-> events_df[i].id, pincode |-> events_df[i].pincode,
                  latitude |-> NaN, longitude |-> NaN]
            ELSE LET r == CHOOSE r \in hit : TRUE
                 IN  [id |-> events_df[i].id, pincode |-> events_df[i].pincode,
                      latitude |-> r.latitude, longitude |-> r.longitude]]

\* A frame whose missing coordinates are filled with those of pincode 110001
FillNa(df) ==
    [i \in 1..Len(df) |->
        IF df[i].latitude = NaN
        THEN [df[i] EXCEPT !.latitude = PincodeTable[PIN_HOME].latitude,
                           !.longitude = PincodeTable[PIN_HOME].longitude]
        ELSE df[i]]

\* dropna(subset=[latitude, longitude])
DropNa(df) ==
    LET located(row) == row.latitude # NaN /\ row.longitude # NaN
    IN  SelectSeq(df, located)

\* df['Distance_km'] = df.apply(haversine_distance(user_lat, user_lon, ...)); metres
WithDistance(df, user_lat, user_lon) ==
    [i \in 1..Len(df) |->
        [id |-> df[i].id, pincode |-> df[i].pincode,
         latitude |-> df[i].latitude, longitude |-> df[i].longitude,
         Distance_km |-> Distance(user_lat, user_lon, df[i].latitude, df[i].longitude)]]

\* A comparison that would leave out the distance equal to the radius
WithinStrict(distance, max_distance) == distance < max_distance

\* Distance_km <= max_distance_km
WithinRadius(distance, max_distance) == distance <= max_distance

FilterByDistance(df, max_distance) ==
    LET keep(row) == WithinRadius(row.Distance_km, max_distance)
    IN  SelectSeq(df, keep)

\* The place of a new row in a sorted frame.  sort_values is called with the
\* default kind, quicksort, which does not promise the order of equal keys:
\* kind "stable" puts the row after its equals, kind "unstable" before them.
RECURSIVE InsertByDistance(_, _, _)
InsertByDistance(sorted, row, kind) ==
    IF sorted = <<>> THEN <<row>>
    ELSE LET last == sorted[Len(sorted)]
             before == \/ row.Distance_km < last.Distance_km
                       \/ (kind = "unstable" /\ row.Distance_km = last.Distance_km)
         IN  IF before
             THEN Append(InsertByDistance(SubSeq(sorted, 1, Len(sorted) - 1), row, kind), last)
             ELSE Append(sorted, row)

RECURSIVE SortedPrefix(_, _, _)
SortedPrefix(df, n, kind) ==
    IF n = 0 THEN <<>>
    ELSE InsertByDistance(SortedPrefix(df, n - 1, kind), df[n], kind)

\* A frame left in its input order
UnsortedValues(df, kind) == df

\* df.sort_values('Distance_km').reset_index(drop=True)
SortValues(df, kind) == SortedPrefix(df, Len(df), kind)

sort_events_by_distance(events_df, pincodes_df, user_lat, user_lon, max_distance_km, kind) ==
    LET events_with_location == DropNa(MergeLeft(events_df, pincodes_df))
        with_distance == WithDistance(events_with_location, user_lat, user_lon)
        filtered_events == FilterByDistance(with_distance, max_distance_km)
    IN  SortValues(filtered_events, kind)


(***************************************************************************)
(* The users and the seeded events (scripts/seed_data.py fills a fresh     *)
(* database with users and events; every row below is one create_event     *)
(* can store).  Dates are days, today is day 0.                            *)
(***************************************************************************)
Gig == <<"G", "i", "g">>
Run == <<"R", "u", "n">>
Art == <<"A", "r", "t">>

Users ==
    <<[id |-> 1, pincode |-> PIN_HOME, interests |-> <<<<" ", "G", "I", "G", " ">>, Lower(Run)>>],
      [id |-> 2, pincode |-> PIN_UNKNOWN, interests |-> <<Lower(Gig)>>],
      [id |-> 3, pincode |-> PIN_FAR, interests |-> <<Gig>>],
      [id |-> 4, pincode |-> PIN_UNKNOWN, interests |-> <<>>]>>

UserIds == {Users[i].id : i \in 1..Len(Users)}

\* date.today()
Today == 0

\* The start time of a seeded event, in minutes since 00:00: 00:30 or 12:00
StartTime(id) == IF id = 4 THEN 30 ELSE 12 * 60

SeedEvent(id, title, pincode, category, host_id, date, is_active) ==
    [id |-> id, event_title |-> title, pincode |-> pincode, category |-> category,
     host_id |-> host_id, date |-> date, time |-> StartTime(id), is_active |-> is_active,
     max_attendees |-> 1, participants |-> {}]

SeedEvents ==
    <<SeedEvent(1, <<"J", "a", "m">>, PIN_EDGE_IN, Gig, 2, 3, TRUE),
      SeedEvent(2, <<"J", "a", "m">>, PIN_NEAR, Lower(Gig), 2, 3, TRUE),
      SeedEvent(3, <<"R", "u", "n">>, PIN_HOME, Run, 3, 2, TRUE),
      SeedEvent(4, <<"G", "i", "g">>, PIN_NEAR, Gig, 3, 1, TRUE),
      SeedEvent(5, <<"J", "a", "m">>, PIN_EDGE_OUT, Gig, 2, 3, TRUE),
      SeedEvent(6, <<"J", "a", "m">>, PIN_FAR, Gig, 2, 3, TRUE),
      SeedEvent(7, <<"R", "u", "n">>, PIN_EAST, Lower(Run), 2, 3, TRUE),
      SeedEvent(8, <<"J", "a", "m">>, PIN_HOME, Gig, 1, 3, TRUE),
      SeedEvent(9, <<"J", "a", "m">>, PIN_HOME, Gig, 2, Today, TRUE),
      SeedEvent(10, <<"J", "a", "m">>, PIN_HOME, Gig, 2, 3, FALSE),
      SeedEvent(11, <<"A", "r", "t">>, PIN_HOME, Art, 2, 3, TRUE),
      SeedEvent(12, <<"J", "a", "m">>, PIN_UNKNOWN, Gig, 3, 3, TRUE)>>

(***************************************************************************)
(* State                                                                   *)
(***************************************************************************)
VARIABLES
    events,     \* the events table with each event's participants, in id order
    sort_kind,  \* what this build's sort_values does with equal keys
    resp,       \* the request being answered and its response, until it is sent
    sorted,     \* a direct call of sort_events_by_distance: its arguments and result
    hav,        \* a direct call of haversine_distance: its arguments and results
    now,        \* the clock, in minutes since 00:00 of today
    accounts,   \* the users table as the account endpoints see it, by user id
    otps,       \* the otps table
    otp_seq,    \* the id given to the last OTP row
    debug,      \* settings.debug
    joining,    \* the join_event requests between their checks and their insert
    tokens,     \* the refresh_tokens table
    token_seq,  \* the id given to the last refresh token
    ip_nullable \* whether the database's refresh_tokens.ip_address accepts NULL

\* What the account endpoints read and write
account_vars == <<accounts, otps, otp_seq, debug>>

\* What the refresh-token endpoints read and write
session_vars == <<tokens, token_seq, ip_nullable>>

vars == <<events, sort_kind, resp, sorted, hav, now, account_vars, joining, session_vars>>

SortKinds == {"stable", "unstable"}

(***************************************************************************)
(* Pagination                                                              *)
(***************************************************************************)
\* page = max(1, page)
NormalizePage(page) == Max(1, page)

\* The largest page size
SIZE_CAP == 200

\* A size with the lower clamp only
UncappedSize(size) == Max(1, size)

\* size = max(1, min(200, size))
NormalizeSize(size) == Max(1, Min(SIZE_CAP, size))

\* math.ceil(total / size)
CeilDiv(total, size) == (total + size - 1) \div size

\* A slice that starts and ends one row late
SlicePlusOne(seq, start_idx, end_idx) ==
    SubSeq(seq, Min(start_idx + 2, Len(seq) + 1), Min(end_idx + 1, Len(seq)))

\* A slice that gives the last row when it starts beyond the end
SliceOrLast(seq, start_idx, end_idx) ==
    IF start_idx >= Len(seq) /\ Len(seq) > 0
    THEN SubSeq(seq, Len(seq), Len(seq))
    ELSE SubSeq(seq, Min(start_idx + 1, Len(seq) + 1), Min(end_idx, Len(seq)))

\* seq[start_idx:end_idx], zero-based as in Python: needs 0 <= start_idx
Slice(seq, start_idx, end_idx) ==
    SubSeq(seq, Min(start_idx + 1, Len(seq) + 1), Min(end_idx, Len(seq)))

\* query.offset(offset).limit(limit).all()
OffsetLimit(rows, offset, limit) == Slice(rows, offset, offset + limit)

Ids(rows) == [i \in 1..Len(rows) |-> rows[i].id]

\* PaginatedEventResponse(events=..., total_pages=...), the events by id
Response(event_ids, total_pages) ==
    [status |-> 200, events |-> event_ids, total_pages |-> total_pages]

\* A response together with the page and size the handler used
Paged(page, size, response) == [page |-> page, size |-> size] @@ response

(***************************************************************************)
(* get_recommended_events                                                  *)
(***************************************************************************)
\* lowered_interests = [i.strip().lower() for i in current_user.interests]
LoweredInterestsCache ==
    [u \in 1..Len(Users) |->
        {Lower(Strip(Users[u].interests[i])) : i \in 1..Len(Users[u].interests)}]

LoweredInterests(user) == LoweredInterestsCache[user.id]

\* A query that lets the requester's own events through
EventsQueryAnyHost(db, user) ==
    LET match(e) ==
            /\ Lower(e.category) \in LoweredInterests(user)
            /\ e.date > Today
            /\ e.is_active
            /\ user.id \notin e.participants
    IN  SelectSeq(db, match)

\* events_query: the filters of the recommendation query, rows in id order
EventsQuery(db, user) ==
    LET match(e) ==
            /\ Lower(e.category) \in LoweredInterests(user)
            /\ e.host_id # user.id
            /\ e.date > Today
            /\ e.is_active
            /\ user.id \notin e.participants
    IN  SelectSeq(db, match)

\* max_distance_km = 70.0, in metres
max_distance_km == 70000

\* lat_delta = max_distance_km / 111.0, in 1e-6 degree
LatDelta == (max_distance_km * 1000) \div 111

\* floor(n * 10^k / d) by long division
RECURSIVE LongDiv(_, _, _, _)
LongDiv(q, r, d, k) ==
    IF k = 0 THEN q
    ELSE LongDiv(q * 10 + (r * 10) \div d, (r * 10) % d, d, k - 1)

\* lon_delta = max_distance_km / (111.320 * max(0.000001, cos(radians(user_lat)))),
\* in 1e-6 degree.  A delta of 360 degrees or more admits every longitude and is
\* kept at 360 degrees.
LonDelta(user_lat) ==
    LET cosine == Max(100, Cos(Radians(user_lat)))
        km_per_degree == MulS(cosine, 111320000)
        km == max_distance_km \div 1000
    IN  IF km_per_degree <= (km * 1000000) \div 360
        THEN 360 * 1000000
        ELSE LongDiv(km \div km_per_degree, km % km_per_degree, km_per_degree, 12)

\* Pincode.latitude.between(...), Pincode.longitude.between(...)
InBoundingBox(user_lat, user_lon, lat, lon) ==
    /\ Abs(lat - user_lat) * 100 <= LatDelta
    /\ Abs(lon - user_lon) * 100 <= LonDelta(user_lat)

\* nearby_pincodes, for each coordinate of the table, computed once
NearbyCache ==
    [c \in Coordinates |->
        {r.pincode : r \in {r \in PincodeRows :
                               InBoundingBox(c[1], c[2], r.latitude, r.longitude)}}]

NearbyPincodes(user_lat, user_lon) == NearbyCache[<<user_lat, user_lon>>]

\* sorted_events_df of the ranked path
SortedEventsDf(candidate_events, user_lat, user_lon, kind) ==
    LET events_df == [i \in 1..Len(candidate_events) |->
                        [id |-> candidate_events[i].id,
                         pincode |-> candidate_events[i].pincode]]
        unique_pincodes == {events_df[i].pincode : i \in 1..Len(events_df)}
        pincodes_df == {r \in PincodeRows : r.pincode \in unique_pincodes}
    IN  sort_events_by_distance(events_df, pincodes_df, user_lat, user_lon,
                                max_distance_km, kind)

CANDIDATE_LIMIT == 5000

\* A cap applied after ranking: the limit closest candidates, in query order
ClosestCandidates(db, user, nearby_pincodes, limit) ==
    LET nearby(e) == e.pincode \in nearby_pincodes
        rows == SelectSeq(EventsQuery(db, user), nearby)
        ranked == SortedEventsDf(rows, PincodeTable[user.pincode].latitude,
                                 PincodeTable[user.pincode].longitude, "stable")
        closest == Ids(Slice(ranked, 0, limit))
        kept(e) == \E k \in 1..Len(closest) : closest[k] = e.id
    IN  SelectSeq(rows, kept)

\* events_query.filter(Event.pincode.in_(nearby_pincodes)).limit(limit).all()
LimitedCandidates(db, user, nearby_pincodes, limit) ==
    LET nearby(e) == e.pincode \in nearby_pincodes
    IN  OffsetLimit(SelectSeq(EventsQuery(db, user), nearby), 0, limit)

\* candidate_events: the query capped at CANDIDATE_LIMIT rows
CandidateEvents(db, user, nearby_pincodes) ==
    LimitedCandidates(db, user, nearby_pincodes, CANDIDATE_LIMIT)

\* A lookup miss answered with 404 Not Found
FallbackFails(db, user, page, size) == [status |-> 404, events |-> <<>>, total_pages |-> 0]

\* The fallback of both lookup misses: a page of events_query, unsorted
Fallback(db, user, page, size) ==
    LET fallback_events == OffsetLimit(EventsQuery(db, user), (page - 1) * size, size)
        total == Len(EventsQuery(db, user))
    IN  Response(Ids(fallback_events), IF total > 0 THEN CeilDiv(total, size) ELSE 0)

\* An empty page that counts as one page
NoCandidatesOnePage == Response(<<>>, 1)

\* No candidate events: an empty page
NoCandidates == Response(<<>>, 0)

\* The ranked path, from the candidate events on
RankedPage(db, candidate_events, user_lat, user_lon, page, size, kind) ==
    IF candidate_events = <<>> THEN NoCandidates
    ELSE
    LET total == Len(candidate_events)
        total_pages == CeilDiv(total, size)
        sorted_events_df == SortedEventsDf(candidate_events, user_lat, user_lon, kind)
        start_idx == (page - 1) * size
        end_idx == start_idx + size
        paginated_event_ids == Ids(Slice(sorted_events_df, start_idx, end_idx))
        stored(eid) == \E i \in 1..Len(db) : db[i].id = eid
    IN  IF paginated_event_ids = <<>> THEN Response(<<>>, 0)
        ELSE Response(SelectSeq(paginated_event_ids, stored), total_pages)

get_recommended_events(db, user, page_in, size_in, kind) ==
    LET page == NormalizePage(page_in)
        size == NormalizeSize(size_in)
    IN  Paged(page, size,
        IF user.interests = <<>> THEN Response(<<>>, 0)
        ELSE IF user.pincode \notin DOMAIN PincodeTable THEN Fallback(db, user, page, size)
        ELSE
        LET user_lat == PincodeTable[user.pincode].latitude
            user_lon == PincodeTable[user.pincode].longitude
            nearby_pincodes == NearbyPincodes(user_lat, user_lon)
        IN  IF nearby_pincodes = {} THEN Fallback(db, user, page, size)
            ELSE RankedPage(db, CandidateEvents(db, user, nearby_pincodes),
                            user_lat, user_lon, page, size, kind))


(***************************************************************************)
(* The other paginated listings                                            *)
(***************************************************************************)
\* total = q.count(); total_pages = ceil(total / size); q.offset(...).limit(size)
ListingPage(rows, page, size) ==
    Response(Ids(OffsetLimit(rows, (page - 1) * size, size)), CeilDiv(Len(rows), size))

search_events(db, user, query, page_in, size_in) ==
    LET page == NormalizePage(page_in)
        size == NormalizeSize(size_in)
        match(e) ==
            /\ ILikeContains(e.event_title, query)
            /\ e.date > Today
            /\ e.is_active
            /\ user.id \notin e.participants
    IN  Paged(page, size, ListingPage(SelectSeq(db, match), page, size))

get_my_joined_events(db, user, page_in, size_in) ==
    LET page == NormalizePage(page_in)
        size == NormalizeSize(size_in)
        match(e) == user.id \in e.participants /\ e.is_active
    IN  Paged(page, size, ListingPage(SelectSeq(db, match), page, size))

get_my_hosted_events(db, user, page_in, size_in) ==
    LET page == NormalizePage(page_in)
        size == NormalizeSize(size_in)
        match(e) == e.host_id = user.id /\ e.is_active
    IN  Paged(page, size, ListingPage(SelectSeq(db, match), page, size))

All == <<"a", "l", "l">>

get_events_by_category(db, user, category, page_in, size_in) ==
    LET page == NormalizePage(page_in)
        size == NormalizeSize(size_in)
        open(e) == e.date > Today /\ e.is_active /\ user.id \notin e.participants
        match(e) ==
            IF Lower(Strip(category)) = All THEN open(e)
            ELSE Lower(e.category) = Lower(Strip(category)) /\ open(e)
    IN  IF category = <<>> THEN Paged(page_in, size_in, Response(<<>>, 0))
        ELSE Paged(page, size, ListingPage(SelectSeq(db, match), page, size))

(***************************************************************************)
(* create_event.  The photo upload is left out; form holds the fields of   *)
(* the request, which EventCreate accepts as they are sent.                *)
(***************************************************************************)
\* The id the database gives the next row of events
NextEventId(db) == IF db = <<>> THEN 1 ELSE db[Len(db)].id + 1

\* The events table after create_event: the caller hosts the new event
create_event(db, user, form) ==
    Append(db, [id |-> NextEventId(db), event_title |-> form.event_title,
                pincode |-> form.pincode, category |-> form.category,
                host_id |-> user.id, date |-> form.date, time |-> form.time,
                is_active |-> TRUE, max_attendees |-> form.max_attendees,
                participants |-> {}])

(***************************************************************************)
(* join_event and leave_event                                              *)
(***************************************************************************)
EventById(db, event_id) == {i \in 1..Len(db) : db[i].id = event_id}

\* A join_event that lets the host in
JoinStatusHostToo(db, user, event_id) ==
    IF EventById(db, event_id) = {} THEN 404
    ELSE LET event == db[CHOOSE i \in EventById(db, event_id) : TRUE]
         IN  IF ~event.is_active THEN 400
             ELSE IF user.id \in event.participants THEN 400
             ELSE IF Cardinality(event.participants) >= event.max_attendees THEN 400
             ELSE 200

\* The status join_event answers with
JoinStatus(db, user, event_id) ==
    IF EventById(db, event_id) = {} THEN 404
    ELSE LET event == db[CHOOSE i \in EventById(db, event_id) : TRUE]
         IN  IF ~event.is_active THEN 400
             ELSE IF event.host_id = user.id THEN 400
             ELSE IF user.id \in event.participants THEN 400
             ELSE IF Cardinality(event.participants) >= event.max_attendees THEN 400
             ELSE 200

\* The events table after join_event
join_event(db, user, event_id) ==
    IF JoinStatus(db, user, event_id) # 200 THEN db
    ELSE [i \in 1..Len(db) |->
            IF db[i].id = event_id
            THEN [db[i] EXCEPT !.participants = @ \cup {user.id}]
            ELSE db[i]]

\* event.participants.append(current_user); db.commit(): the row of the association
\* table is inserted, whatever the table holds by then
InsertParticipant(db, user, event_id) ==
    [i \in 1..Len(db) |->
        IF db[i].id = event_id
        THEN [db[i] EXCEPT !.participants = @ \cup {user.id}]
        ELSE db[i]]

\* The status leave_event answers with
LeaveStatus(db, user, event_id) ==
    IF EventById(db, event_id) = {} THEN 404
    ELSE LET event == db[CHOOSE i \in EventById(db, event_id) : TRUE]
         IN  IF event.host_id = user.id THEN 400
             ELSE IF user.id \notin event.participants THEN 400
             ELSE 200

\* The events table after leave_event
leave_event(db, user, event_id) ==
    IF LeaveStatus(db, user, event_id) # 200 THEN db
    ELSE [i \in 1..Len(db) |->
            IF db[i].id = event_id
            THEN [db[i] EXCEPT !.participants = @ \ {user.id}]
            ELSE db[i]]

(***************************************************************************)
(* edit_event and cancel_event.  Instants are minutes since 00:00 of       *)
(* today; the photo upload of edit_event is left out.                      *)
(***************************************************************************)
\* db.query(Event).filter(Event.id == event_id, Event.is_active == True).first()
ActiveById(db, event_id) == {i \in 1..Len(db) : db[i].id = event_id /\ db[i].is_active}

\* datetime.combine(event.date, event.time)
EventDt(event) == event.date * (24 * 60) + event.time

\* timedelta(hours=12), in minutes
TWELVE_HOURS == 720

\* A cancellation that is let through at exactly 12 hours before the start
CancelStatusInclusive(db, user, event_id, clock) ==
    IF ActiveById(db, event_id) = {} THEN 404
    ELSE LET event == db[CHOOSE i \in ActiveById(db, event_id) : TRUE]
         IN  IF event.host_id # user.id THEN 403
             ELSE IF clock >= EventDt(event) THEN 400
             ELSE IF clock > EventDt(event) - TWELVE_HOURS THEN 400
             ELSE 200

\* The status cancel_event answers with
CancelStatus(db, user, event_id, clock) ==
    IF ActiveById(db, event_id) = {} THEN 404
    ELSE LET event == db[CHOOSE i \in ActiveById(db, event_id) : TRUE]
         IN  IF event.host_id # user.id THEN 403
             ELSE IF clock >= EventDt(event) THEN 400
             ELSE IF clock >= EventDt(event) - TWELVE_HOURS THEN 400
             ELSE 200

\* The events table after cancel_event
cancel_event(db, user, event_id, clock) ==
    IF CancelStatus(db, user, event_id, clock) # 200 THEN db
    ELSE [i \in 1..Len(db) |->
            IF db[i].id = event_id THEN [db[i] EXCEPT !.is_active = FALSE] ELSE db[i]]

\* An edit that any user may make
EditStatusAnyone(db, user, event_id, form) ==
    IF ActiveById(db, event_id) = {} THEN 404
    ELSE LET event == db[CHOOSE i \in ActiveById(db, event_id) : TRUE]
         IN  IF /\ "max_attendees" \in DOMAIN form
                /\ form.max_attendees < Cardinality(event.participants)
             THEN 400
             ELSE 200

\* The status edit_event answers with; form holds the fields that were sent
EditStatus(db, user, event_id, form) ==
    IF ActiveById(db, event_id) = {} THEN 404
    ELSE LET event == db[CHOOSE i \in ActiveById(db, event_id) : TRUE]
         IN  IF event.host_id # user.id THEN 403
             ELSE IF /\ "max_attendees" \in DOMAIN form
                     /\ form.max_attendees < Cardinality(event.participants)
             THEN 400
             ELSE 200

\* The events table after edit_event: the fields sent replace the stored ones
edit_event(db, user, event_id, form) ==
    IF EditStatus(db, user, event_id, form) # 200 THEN db
    ELSE [i \in 1..Len(db) |->
            IF db[i].id = event_id
            THEN [f \in DOMAIN db[i] |-> IF f \in DOMAIN form THEN form[f] ELSE db[i][f]]
            ELSE db[i]]

(***************************************************************************)
(* The OTP and password endpoints (app/routers/auth.py) and the admin      *)
(* endpoints (app/routers/admin.py).  The clock is in minutes.             *)
(***************************************************************************)
\* settings.otp_expire_minutes
otp_expire_minutes == 10

\* '@' in identifier
HasAt(identifier) == \E i \in 1..Len(identifier) : identifier[i] = "@"

\* The user looked up by email if the identifier holds an '@', by username if not
FindUser(users, identifier) ==
    {u \in DOMAIN users :
        IF HasAt(identifier) THEN users[u].email = identifier
        ELSE users[u].username = identifier}

\* get_password_hash: a hash that tells which password was hashed
get_password_hash(password) == <<"hash", password>>

\* OTP(email, otp_code, expires_at): the row a generation adds
OtpRow(seq, email, code, clock) ==
    [id |-> seq + 1, email |-> email, otp_code |-> code, is_verified |-> FALSE,
     expires_at |-> clock + otp_expire_minutes]

\* A generation that leaves the earlier OTP rows in place
NewOtpKeepsOld(table, seq, email, code, clock) ==
    table \cup {OtpRow(seq, email, code, clock)}

\* The unverified rows of the email are deleted, then the new row is added
NewOtp(table, seq, email, code, clock) ==
    {r \in table : ~(r.email = email /\ ~r.is_verified)}
        \cup {OtpRow(seq, email, code, clock)}

\* The otps table after otp/generate
generate_otp_endpoint(table, seq, email, code, clock) ==
    NewOtp(table, seq, email, code, clock)

\* The status of otp/generate and of forgot-password once the row is stored
SentStatus(email_sent) == IF email_sent THEN 200 ELSE 500

\* The otps table after forgot-password
forgot_password(users, table, seq, identifier, code, clock) ==
    IF FindUser(users, identifier) = {} THEN table
    ELSE LET user == users[CHOOSE u \in FindUser(users, identifier) : TRUE]
         IN  NewOtp(table, seq, user.email, code, clock)

\* The unverified rows with this email and code, of which otp/verify takes one
VerifyMatches(table, email, code) ==
    {r \in table : r.email = email /\ r.otp_code = code /\ ~r.is_verified}

\* The otps table after otp/verify found the row
verify_otp_endpoint(table, row, clock) ==
    IF row.expires_at < clock THEN table
    ELSE (table \ {row}) \cup {[row EXCEPT !.is_verified = TRUE]}

\* The verified rows of an email
VerifiedRows(table, email) == {r \in table : r.email = email /\ r.is_verified}

\* A reset that leaves the OTP rows of the email in place
KeepOtps(table, email) == table

\* db.query(OTP).filter(OTP.email == user.email).delete()
RemoveOtps(table, email) == {r \in table : r.email # email}

\* The status reset-password answers with
ResetStatus(users, table, identifier) ==
    IF FindUser(users, identifier) = {} THEN 400
    ELSE LET user == users[CHOOSE u \in FindUser(users, identifier) : TRUE]
         IN  IF VerifiedRows(table, user.email) = {} THEN 400 ELSE 200

(***************************************************************************)
(* register, login, refresh and logout (app/routers/auth.py).  A refresh   *)
(* token is named by the number of its issue; two tokens are never equal.  *)
(***************************************************************************)
\* settings.refresh_token_expire_days, in minutes
refresh_token_expire_days == 7
RefreshSpan == refresh_token_expire_days * 24 * 60

\* The number of active tokens from which login rotates
ROTATE_AT == 4

\* bcrypt.checkpw of the password against the stored hash
verify_password(password, hashed) == hashed = get_password_hash(password)

\* create_refresh_token at the seq-th issue
Token(seq) == <<"refresh", seq>>

\* RefreshToken(token, user_id, expires_at), is_blacklisted defaulting to False
TokenRow(seq, user_id, clock) ==
    [id |-> seq + 1, token |-> Token(seq + 1), user_id |-> user_id,
     expires_at |-> clock + RefreshSpan, is_blacklisted |-> FALSE]

\* db.add(db_refresh); db.commit(): the row is stored unless the column
\* ip_address, which the handlers leave unset, refuses NULL
StoreToken(table, seq, user_id, clock, nullable) ==
    IF nullable THEN table \cup {TokenRow(seq, user_id, clock)} ELSE table

\* The tokens of the user that are neither blacklisted nor expired
ActiveTokens(table, user_id, clock) ==
    {t \in table : t.user_id = user_id /\ ~t.is_blacklisted /\ t.expires_at > clock}

\* The tokens min(active_tokens, key=expires_at) can return
OldestTokens(active) == {t \in active : \A o \in active : t.expires_at <= o.expires_at}

\* A rotation that is one token late
RotatedLate(table, user_id, clock, oldest) ==
    IF Cardinality(ActiveTokens(table, user_id, clock)) > ROTATE_AT
    THEN table \ {oldest}
    ELSE table

\* The table after the rotation of login: with ROTATE_AT or more active tokens
\* the oldest is deleted
Rotated(table, user_id, clock, oldest) ==
    IF Cardinality(ActiveTokens(table, user_id, clock)) >= ROTATE_AT
    THEN table \ {oldest}
    ELSE table

\* The status login answers with
LoginStatus(users, identifier, password, nullable) ==
    IF FindUser(users, identifier) = {} THEN 401
    ELSE LET user == users[CHOOSE u \in FindUser(users, identifier) : TRUE]
         IN  IF ~verify_password(password, user.hashed_password) THEN 401
             ELSE IF ~nullable THEN 500
             ELSE 200

\* The refresh_tokens table after login; oldest is the token min() returned
login(users, table, seq, identifier, password, clock, oldest, nullable) ==
    IF LoginStatus(users, identifier, password, nullable) = 401 THEN table
    ELSE LET user_id == CHOOSE u \in FindUser(users, identifier) : TRUE
         IN  StoreToken(Rotated(table, user_id, clock, oldest), seq, user_id, clock,
                        nullable)

\* str.replace(' ', '_').replace('-', '_')
Underscored(s) == [i \in 1..Len(s) |-> IF s[i] \in {" ", "-"} THEN "_" ELSE s[i]]

Digits == <<"0", "1", "2", "3", "4", "5", "6", "7", "8", "9">>

\* The first of base_username, base_username_1, base_username_2, ... not in use
RECURSIVE UniqueUsername(_, _, _)
UniqueUsername(users, base_username, counter) ==
    LET username == IF counter = 0 THEN base_username
                    ELSE base_username \o <<"_", Digits[counter + 1]>>
    IN  IF \E u \in DOMAIN users : users[u].username = username
        THEN UniqueUsername(users, base_username, counter + 1)
        ELSE username

\* The id the database gives the next row of users
NextUserId(users) ==
    IF DOMAIN users = {} THEN 1
    ELSE 1 + CHOOSE u \in DOMAIN users : \A v \in DOMAIN users : v <= u

\* The status register answers with
RegisterStatus(users, email, nullable) ==
    IF \E u \in DOMAIN users : users[u].email = email THEN 400
    ELSE IF ~nullable THEN 500
    ELSE 200

\* The users table after register: the user is committed before the token is stored
register(users, email, full_name, password) ==
    IF \E u \in DOMAIN users : users[u].email = email THEN users
    ELSE users @@ (NextUserId(users) :>
            [username |-> UniqueUsername(users, Underscored(Lower(full_name)), 0),
             email |-> email,
             hashed_password |-> get_password_hash(password)])

\* A lookup that takes blacklisted rows too
RefreshRowsAny(table, cookie) == {t \in table : t.token = cookie}

\* The rows refresh accepts for the cookie
RefreshRows(table, cookie) == {t \in table : t.token = cookie /\ ~t.is_blacklisted}

\* The status refresh answers with; verified is whether verify_token accepted
\* the cookie, whose subject is then the user the token was issued to
RefreshStatus(table, cookie, verified) ==
    IF cookie = <<>> THEN 401
    ELSE IF ~verified THEN 401
    ELSE IF RefreshRows(table, cookie) = {} THEN 401
    ELSE 200

\* The refresh_tokens table after logout
logout(table, cookie) ==
    {IF t.token = cookie THEN [t EXCEPT !.is_blacklisted = TRUE] ELSE t : t \in table}

\* The status of list_users and clear_db
AdminStatus(is_debug) == IF ~is_debug THEN 403 ELSE 200

(***************************************************************************)
(* Requests.  Each action is one request handled from start to end.        *)
(***************************************************************************)
MaxPage == 3
MaxSize == 2
MaxCandidates == 3

PageInputs == (-1)..MaxPage
SizeInputs == ((-1)..MaxSize) \cup {SIZE_CAP, SIZE_CAP + 1}
QueryInputs == {<<"J", "A">>}
CategoryInputs == {<<" ", "A", "l", "l">>, <<"g", "i", "g">>}
JoinEventIds == {3, 6, 13}

NoArg == <<>>

\* The record of a listing request and its response
Listed(op, user_id, arg, page_in, size_in, response) ==
    [op |-> op, user |-> user_id, arg |-> arg, page_in |-> page_in,
     size_in |-> size_in] @@ response

\* The record of a join or leave request
Answered(op, user_id, event_id, status) ==
    [op |-> op, user |-> user_id, arg |-> event_id, page_in |-> 0, size_in |-> 0,
     page |-> 0, size |-> 0, status |-> status, events |-> <<>>, total_pages |-> 0]

NoResp == Answered("none", 0, 0, 0)

NoHav == [phase |-> "none", a |-> <<0, 0>>, b |-> <<0, 0>>,
          forth |-> 0, back |-> 0, self |-> 0]

AdminName == <<"a", "d", "m", "i", "n">>

\* The address of a mailbox at the one mail domain of the model
Email(name) == <<name, "@", "x">>

\* The users table: username, email and password hash of each user
SeedAccounts ==
    [u \in UserIds |->
        [username |-> <<AdminName, <<"b", "i", "n", "a">>, <<"c", "h", "e", "n">>,
                        <<"d", "e", "v">>>>[u],
         email |-> Email(<<"a", "b", "c", "d">>[u]),
         hashed_password |-> <<"hash", "seed">>]]

NoSort == [phase |-> "none", events_df |-> <<>>, user_pincode |-> PIN_HOME,
           max_distance |-> 0, result |-> <<>>]

\* The connection is idle: a request is taken when the last response has been sent
Idle == resp.op = "none"

GetRecommendedEvents ==
    \E u \in UserIds, page \in PageInputs, size \in SizeInputs :
        /\ Idle
        /\ resp' = Listed("recommended_events", u, NoArg, page, size,
                          get_recommended_events(events, Users[u], page, size, sort_kind))
        /\ UNCHANGED <<events, sort_kind, joining, session_vars, sorted, hav, now, account_vars>>

SearchEvents ==
    \E u \in UserIds, query \in QueryInputs, page \in PageInputs, size \in SizeInputs :
        /\ Idle
        /\ resp' = Listed("search_events", u, query, page, size,
                          search_events(events, Users[u], query, page, size))
        /\ UNCHANGED <<events, sort_kind, joining, session_vars, sorted, hav, now, account_vars>>

GetMyJoinedEvents ==
    \E u \in UserIds, page \in PageInputs, size \in SizeInputs :
        /\ Idle
        /\ resp' = Listed("my_joined_events", u, NoArg, page, size,
                          get_my_joined_events(events, Users[u], page, size))
        /\ UNCHANGED <<events, sort_kind, joining, session_vars, sorted, hav, now, account_vars>>

GetMyHostedEvents ==
    \E u \in UserIds, page \in PageInputs, size \in SizeInputs :
        /\ Idle
        /\ resp' = Listed("my_hosted_events", u, NoArg, page, size,
                          get_my_hosted_events(events, Users[u], page, size))
        /\ UNCHANGED <<events, sort_kind, joining, session_vars, sorted, hav, now, account_vars>>

GetEventsByCategory ==
    \E u \in UserIds, category \in CategoryInputs, page \in PageInputs, size \in SizeInputs :
        /\ Idle
        /\ resp' = Listed("events_by_category", u, category, page, size,
                          get_events_by_category(events, Users[u], category, page, size))
        /\ UNCHANGED <<events, sort_kind, joining, session_vars, sorted, hav, now, account_vars>>

JoinEvent ==
    \E u \in UserIds, event_id \in JoinEventIds :
        /\ Idle
        /\ events' = join_event(events, Users[u], event_id)
        /\ resp' = Answered("join_event", u, event_id, JoinStatus(events, Users[u], event_id))
        /\ UNCHANGED <<sort_kind, joining, session_vars, sorted, hav, now, account_vars>>

LeaveEvent ==
    \E u \in UserIds, event_id \in JoinEventIds :
        /\ Idle
        /\ events' = leave_event(events, Users[u], event_id)
        /\ resp' = Answered("leave_event", u, event_id, LeaveStatus(events, Users[u], event_id))
        /\ UNCHANGED <<sort_kind, joining, session_vars, sorted, hav, now, account_vars>>

\* The response is sent
SendResponse ==
    /\ ~Idle
    /\ resp' = NoResp
    /\ UNCHANGED <<events, sort_kind, joining, session_vars, sorted, hav, now, account_vars>>

\* Nothing but the events is in use: the clock at 00:00, the seeded accounts, no OTP
Quiet ==
    /\ hav = NoHav
    /\ now = 0
    /\ accounts = SeedAccounts
    /\ otps = {}
    /\ otp_seq = 0
    /\ debug = FALSE
    /\ joining = {}
    /\ tokens = {}
    /\ token_seq = 0
    /\ ip_nullable = TRUE

Init ==
    /\ events = SeedEvents
    /\ sort_kind \in SortKinds
    /\ resp = NoResp
    /\ sorted = NoSort
    /\ Quiet

Next ==
    \/ GetRecommendedEvents
    \/ SearchEvents
    \/ GetMyJoinedEvents
    \/ GetMyHostedEvents
    \/ GetEventsByCategory
    \/ JoinEvent
    \/ LeaveEvent
    \/ SendResponse

Spec == Init /\ [][Next]_vars

(***************************************************************************)
(* sort_events_by_distance called on its own: the arguments are drawn, the *)
(* call is one step.                                                       *)
(***************************************************************************)
CandidatePincodes == {PIN_HOME, PIN_NEAR, PIN_EDGE_IN, PIN_EDGE_OUT, PIN_FAR, PIN_UNKNOWN}
ReferencePincodes == {PIN_HOME, PIN_NEAR}

\* Frames of up to MaxCandidates candidate rows, ids 1, 2, ... in input order
CandidateFrame(f) == [i \in 1..Len(f) |-> [id |-> i, pincode |-> f[i]]]

\* The radii tried: none, the handler's 70 km, and each candidate's own distance
RadiusInputs(frame, ref) ==
    {0, max_distance_km} \cup
    {Distance(PincodeTable[ref].latitude, PincodeTable[ref].longitude,
              PincodeTable[frame[i].pincode].latitude,
              PincodeTable[frame[i].pincode].longitude) :
        i \in {i \in 1..Len(frame) : frame[i].pincode \in DOMAIN PincodeTable}}

InitSort ==
    /\ events = SeedEvents
    /\ sort_kind \in SortKinds
    /\ resp = NoResp
    /\ Quiet
    /\ \E n \in 0..MaxCandidates :
         \E f \in [1..n -> CandidatePincodes], ref \in ReferencePincodes :
            \E radius \in RadiusInputs(CandidateFrame(f), ref) :
                sorted = [phase |-> "args", events_df |-> CandidateFrame(f),
                          user_pincode |-> ref, max_distance |-> radius, result |-> <<>>]

SortCall ==
    /\ sorted.phase = "args"
    /\ sorted' = [sorted EXCEPT
                    !.phase = "returned",
                    !.result = sort_events_by_distance(
                                  sorted.events_df, PincodeRows,
                                  PincodeTable[sorted.user_pincode].latitude,
                                  PincodeTable[sorted.user_pincode].longitude,
                                  sorted.max_distance, sort_kind)]
    /\ UNCHANGED <<events, sort_kind, joining, session_vars, resp, hav, now, account_vars>>

NextSort == SortCall

SpecSort == InitSort /\ [][NextSort]_vars
(***************************************************************************)
(* The host's operations on the events, with join and leave, at instants   *)
(* around the last minute at which event 4 can be cancelled.               *)
(***************************************************************************)
CancelEventIds == {3, 4, 9, 10}
EditEventIds == {3, 10, 13}

EditForms == {[category |-> Art, max_attendees |-> 2], [max_attendees |-> 0]}

ClockInputs ==
    {EventDt(SeedEvents[4]) - TWELVE_HOURS - 1, EventDt(SeedEvents[4]) - TWELVE_HOURS}

EditEvent ==
    \E u \in UserIds, event_id \in EditEventIds, form \in EditForms :
        /\ Idle
        /\ events' = edit_event(events, Users[u], event_id, form)
        /\ resp' = Answered("edit_event", u, event_id,
                            EditStatus(events, Users[u], event_id, form))
                    @@ [form |-> form]
        /\ UNCHANGED <<sort_kind, joining, session_vars, sorted, hav, now, account_vars>>

CancelEvent ==
    \E u \in UserIds, event_id \in CancelEventIds :
        /\ Idle
        /\ events' = cancel_event(events, Users[u], event_id, now)
        /\ resp' = Answered("cancel_event", u, event_id,
                            CancelStatus(events, Users[u], event_id, now))
        /\ UNCHANGED <<sort_kind, joining, session_vars, sorted, hav, now, account_vars>>

InitManage ==
    /\ events = SeedEvents
    /\ sort_kind \in SortKinds
    /\ resp = NoResp
    /\ sorted = NoSort
    /\ hav = NoHav
    /\ now \in ClockInputs
    /\ accounts = SeedAccounts
    /\ otps = {}
    /\ otp_seq = 0
    /\ debug = FALSE
    /\ joining = {}
    /\ tokens = {}
    /\ token_seq = 0
    /\ ip_nullable = TRUE

NextManage ==
    \/ JoinEvent
    \/ LeaveEvent
    \/ EditEvent
    \/ CancelEvent
    \/ SendResponse

SpecManage == InitManage /\ [][NextManage]_vars

(***************************************************************************)
(* Events are created, joined, left and edited by their hosts.             *)
(***************************************************************************)
MaxCreated == 1

MaxAttendeesInputs == {-1, 0, 2}

CreateForms ==
    {[event_title |-> <<"J", "a", "m">>, pincode |-> PIN_HOME, category |-> Gig,
      date |-> 3, time |-> 12 * 60, max_attendees |-> m] : m \in MaxAttendeesInputs}

CreateEvent ==
    \E u \in UserIds, form \in CreateForms :
        /\ Idle
        /\ Len(events) < Len(SeedEvents) + MaxCreated
        /\ events' = create_event(events, Users[u], form)
        /\ resp' = Answered("create_event", u, NextEventId(events), 200)
                    @@ [form |-> form]
        /\ UNCHANGED <<sort_kind, joining, session_vars, sorted, hav, now, account_vars>>

InitCreate ==
    /\ events = SeedEvents
    /\ sort_kind = "stable"
    /\ resp = NoResp
    /\ sorted = NoSort
    /\ Quiet

NextCreate ==
    \/ CreateEvent
    \/ JoinEvent
    \/ LeaveEvent
    \/ EditEvent
    \/ SendResponse

SpecCreate == InitCreate /\ [][NextCreate]_vars

(***************************************************************************)
(* join_event requests of different users handled at the same time, each   *)
(* in a session of its own: a request reads the event and its participants *)
(* and runs its checks, and inserts its row in a later step.  joining      *)
(* holds the requests not yet answered; status 0 is a request that passed  *)
(* its checks and has not inserted yet.                                    *)
(***************************************************************************)
ConcurrentEventIds == {3, 6}

Joining(u, event_id, status) == [user |-> u, event_id |-> event_id, status |-> status]

\* Lines 99-117: the event is loaded and the checks run on what was read
JoinCheck ==
    \E u \in UserIds, event_id \in ConcurrentEventIds :
        /\ \A r \in joining : r.user # u
        /\ joining' = joining \cup
              {Joining(u, event_id,
                       IF JoinStatus(events, Users[u], event_id) = 200 THEN 0
                       ELSE JoinStatus(events, Users[u], event_id))}
        /\ UNCHANGED <<events, sort_kind, session_vars, resp, sorted, hav, now, account_vars>>

\* Lines 120-121: the participant is appended and the session commits
JoinInsert ==
    \E r \in joining :
        /\ r.status = 0
        /\ events' = InsertParticipant(events, Users[r.user], r.event_id)
        /\ joining' = (joining \ {r}) \cup {Joining(r.user, r.event_id, 200)}
        /\ UNCHANGED <<sort_kind, session_vars, resp, sorted, hav, now, account_vars>>

\* The response of an answered request is sent
JoinRespond ==
    \E r \in joining :
        /\ r.status # 0
        /\ joining' = joining \ {r}
        /\ UNCHANGED <<events, sort_kind, session_vars, resp, sorted, hav, now, account_vars>>

NextJoin ==
    \/ JoinCheck
    \/ JoinInsert
    \/ JoinRespond

SpecJoin == InitCreate /\ [][NextJoin]_vars

(***************************************************************************)
(* The account endpoints: OTPs are generated, verified and used to reset   *)
(* a password while the clock advances, and the admin endpoints are        *)
(* called, with settings.debug on or off.                                  *)
(***************************************************************************)
MaxOtps == 3

\* The clock stops after two expiry periods
MaxClock == 2 * otp_expire_minutes

EmailInputs == {Email("a"), Email("z")}
IdentifierInputs == {AdminName, Email("a"), <<"n", "o">>}
\* The codes a client may send, the first of which is the one that is generated
CodeInputs == {"111111", "222222"}
GeneratedCodes == {"111111"}
PasswordInputs == {"pw1"}

\* The record of a request to an account endpoint
AccountAnswered(op, email, status) ==
    Answered(op, 0, 0, status) @@ [email |-> email]

\* The email of the user an identifier names, or the identifier if it names none
EmailOf(users, identifier) ==
    IF FindUser(users, identifier) = {} THEN identifier
    ELSE users[CHOOSE u \in FindUser(users, identifier) : TRUE].email

GenerateOtp ==
    \E email \in EmailInputs, code \in GeneratedCodes, email_sent \in BOOLEAN :
        /\ Idle
        /\ otp_seq < MaxOtps
        /\ otps' = generate_otp_endpoint(otps, otp_seq, email, code, now)
        /\ otp_seq' = otp_seq + 1
        /\ resp' = AccountAnswered("generate_otp", email, SentStatus(email_sent))
        /\ UNCHANGED <<events, sort_kind, joining, session_vars, sorted, hav, now, accounts, debug>>

ForgotPassword ==
    \E identifier \in IdentifierInputs, code \in GeneratedCodes, email_sent \in BOOLEAN :
        /\ Idle
        /\ otp_seq < MaxOtps
        /\ otps' = forgot_password(accounts, otps, otp_seq, identifier, code, now)
        /\ otp_seq' = IF FindUser(accounts, identifier) = {} THEN otp_seq ELSE otp_seq + 1
        /\ resp' = AccountAnswered("forgot_password", EmailOf(accounts, identifier),
                                   IF FindUser(accounts, identifier) = {} THEN 400
                                   ELSE SentStatus(email_sent))
        /\ UNCHANGED <<events, sort_kind, joining, session_vars, sorted, hav, now, accounts, debug>>

VerifyOtp ==
    \E email \in EmailInputs, code \in CodeInputs :
        /\ Idle
        /\ IF VerifyMatches(otps, email, code) = {}
           THEN /\ otps' = otps
                /\ resp' = AccountAnswered("verify_otp", email, 400)
           ELSE \E row \in VerifyMatches(otps, email, code) :
                /\ otps' = verify_otp_endpoint(otps, row, now)
                /\ resp' = AccountAnswered("verify_otp", email,
                                           IF row.expires_at < now THEN 400 ELSE 200)
        /\ UNCHANGED <<events, sort_kind, joining, session_vars, sorted, hav, now, accounts, otp_seq, debug>>

ResetPassword ==
    \E identifier \in IdentifierInputs, new_password \in PasswordInputs :
        /\ Idle
        /\ resp' = AccountAnswered("reset_password", EmailOf(accounts, identifier),
                                   ResetStatus(accounts, otps, identifier))
        /\ IF ResetStatus(accounts, otps, identifier) # 200
           THEN UNCHANGED <<accounts, otps>>
           ELSE LET u == CHOOSE u \in FindUser(accounts, identifier) : TRUE
                IN  /\ accounts' = [accounts EXCEPT ![u].hashed_password =
                                                      get_password_hash(new_password)]
                    /\ otps' = RemoveOtps(otps, accounts[u].email)
        /\ UNCHANGED <<events, sort_kind, joining, session_vars, sorted, hav, now, otp_seq, debug>>

\* Ten minutes pass
Tick ==
    /\ Idle
    /\ now < MaxClock
    /\ now' = now + otp_expire_minutes
    /\ UNCHANGED <<events, sort_kind, joining, session_vars, resp, sorted, hav, account_vars>>

ListUsers ==
    \E u \in DOMAIN accounts :
        /\ Idle
        /\ resp' = Answered("list_users", u, 0, AdminStatus(debug))
                    @@ [username |-> accounts[u].username,
                        users |-> IF AdminStatus(debug) = 200 THEN DOMAIN accounts ELSE {}]
        /\ UNCHANGED <<events, sort_kind, joining, session_vars, sorted, hav, now, account_vars>>

\* Every row of every table is deleted
ClearDb ==
    \E u \in DOMAIN accounts :
        /\ Idle
        /\ resp' = Answered("clear_db", u, 0, AdminStatus(debug))
                    @@ [username |-> accounts[u].username]
        /\ IF AdminStatus(debug) # 200
           THEN UNCHANGED <<events, accounts, otps, tokens>>
           ELSE /\ events' = <<>>
                /\ accounts' = <<>>
                /\ otps' = {}
                /\ tokens' = {}
        /\ UNCHANGED <<sort_kind, joining, token_seq, ip_nullable, sorted, hav, now,
                       otp_seq, debug>>

InitAuth ==
    /\ events = SeedEvents
    /\ sort_kind \in SortKinds
    /\ resp = NoResp
    /\ sorted = NoSort
    /\ hav = NoHav
    /\ now = 0
    /\ accounts = SeedAccounts
    /\ otps = {}
    /\ otp_seq = 0
    /\ debug \in BOOLEAN
    /\ joining = {}
    /\ tokens = {}
    /\ token_seq = 0
    /\ ip_nullable = TRUE

NextAuth ==
    \/ GenerateOtp
    \/ ForgotPassword
    \/ VerifyOtp
    \/ ResetPassword
    \/ Tick
    \/ ListUsers
    \/ ClearDb
    \/ SendResponse

SpecAuth == InitAuth /\ [][NextAuth]_vars

(***************************************************************************)
(* Sessions: users register, log in, refresh and log out while the clock   *)
(* advances by half the lifetime of a refresh token.  The database either  *)
(* accepts a refresh token without ip_address or refuses every one.        *)
(***************************************************************************)
MaxTokens == 5

MaxSessionClock == RefreshSpan

LoginIdentifiers == {AdminName, Email("a"), Email("e"), <<"n", "o">>}
LoginPasswords == {"seed", "pw1"}
RegisterEmails == {Email("a"), Email("e")}
RegisterNames == {<<"D", "e", "v">>}
NoCookie == <<>>
\* The cookies sent: none, or one of the first three tokens issued
CookieInputs == {NoCookie} \cup {Token(k) : k \in {1, 2, 3}}

\* The record of a session request: the refresh token sent or set as the cookie,
\* and the user the access token returned is for (0: no access token)
SessionAnswered(op, cookie, status, access) ==
    Answered(op, 0, 0, status) @@ [cookie |-> cookie, access |-> access]

Register ==
    \E email \in RegisterEmails, full_name \in RegisterNames, password \in {"pw1"} :
        LET status == RegisterStatus(accounts, email, ip_nullable)
        IN  /\ Idle
            /\ token_seq < MaxTokens
            /\ accounts' = register(accounts, email, full_name, password)
            /\ tokens' = IF status = 400 THEN tokens
                         ELSE StoreToken(tokens, token_seq, NextUserId(accounts), now,
                                         ip_nullable)
            /\ token_seq' = IF status = 400 THEN token_seq ELSE token_seq + 1
            /\ resp' = SessionAnswered("register",
                                       IF status = 200 THEN Token(token_seq + 1)
                                       ELSE NoCookie,
                                       status,
                                       IF status = 200 THEN NextUserId(accounts) ELSE 0)
            /\ UNCHANGED <<events, sort_kind, joining, ip_nullable, sorted, hav, now,
                           otps, otp_seq, debug>>

Login ==
    \E identifier \in LoginIdentifiers, password \in LoginPasswords :
        LET status == LoginStatus(accounts, identifier, password, ip_nullable)
            user_id == IF status = 401 THEN 0
                       ELSE CHOOSE u \in FindUser(accounts, identifier) : TRUE
            active == ActiveTokens(tokens, user_id, now)
        IN  /\ Idle
            /\ token_seq < MaxTokens
            /\ \E oldest \in IF active = {} THEN {NoCookie} ELSE OldestTokens(active) :
                  tokens' = login(accounts, tokens, token_seq, identifier, password,
                                  now, oldest, ip_nullable)
            /\ token_seq' = IF status = 401 THEN token_seq ELSE token_seq + 1
            /\ resp' = SessionAnswered("login",
                                       IF status = 200 THEN Token(token_seq + 1)
                                       ELSE NoCookie,
                                       status,
                                       IF status = 200 THEN user_id ELSE 0)
            /\ UNCHANGED <<events, sort_kind, joining, ip_nullable, sorted, hav, now,
                           account_vars>>

Refresh ==
    \E cookie \in CookieInputs, verified \in BOOLEAN :
        LET status == RefreshStatus(tokens, cookie, verified)
        IN  /\ Idle
            /\ resp' = SessionAnswered("refresh", cookie, status,
                            IF status = 200
                            THEN (CHOOSE t \in RefreshRows(tokens, cookie) : TRUE).user_id
                            ELSE 0)
                        @@ [verified |-> verified]
            /\ UNCHANGED <<events, sort_kind, joining, session_vars, sorted, hav, now,
                           account_vars>>

Logout ==
    \E cookie \in CookieInputs :
        /\ Idle
        /\ tokens' = IF cookie = NoCookie THEN tokens ELSE logout(tokens, cookie)
        /\ resp' = SessionAnswered("logout", cookie, 200, 0)
        /\ UNCHANGED <<events, sort_kind, joining, token_seq, ip_nullable, sorted, hav,
                       now, account_vars>>

\* Half the lifetime of a refresh token passes
SessionTick ==
    /\ Idle
    /\ now < MaxSessionClock
    /\ now' = now + RefreshSpan \div 2
    /\ UNCHANGED <<events, sort_kind, joining, session_vars, resp, sorted, hav,
                   account_vars>>

InitSession ==
    /\ events = SeedEvents
    /\ sort_kind = "stable"
    /\ resp = NoResp
    /\ sorted = NoSort
    /\ hav = NoHav
    /\ now = 0
    /\ accounts = SeedAccounts
    /\ otps = {}
    /\ otp_seq = 0
    /\ debug = FALSE
    /\ joining = {}
    /\ tokens = {}
    /\ token_seq = 0
    /\ ip_nullable \in BOOLEAN

NextSession ==
    \/ Register
    \/ Login
    \/ Refresh
    \/ Logout
    \/ SessionTick
    \/ SendResponse

SpecSession == InitSession /\ [][NextSession]_vars

(***************************************************************************)
(* haversine_distance called on its own, on the coordinates of the table   *)
(* and on a grid that reaches the poles and the date line.                 *)
(***************************************************************************)
GridLatitudes == {-900000, -286139, 0, 900000}
GridLongitudes == {-1800000, 0, 1027910, 1800000}

CoordinateInputs == Coordinates \cup (GridLatitudes \X GridLongitudes)

InitHaversine ==
    /\ events = SeedEvents
    /\ sort_kind \in SortKinds
    /\ resp = NoResp
    /\ sorted = NoSort
    /\ now = 0
    /\ accounts = SeedAccounts
    /\ otps = {}
    /\ otp_seq = 0
    /\ debug = FALSE
    /\ joining = {}
    /\ tokens = {}
    /\ token_seq = 0
    /\ ip_nullable = TRUE
    /\ \E a \in CoordinateInputs, b \in CoordinateInputs :
          hav = [NoHav EXCEPT !.phase = "args", !.a = a, !.b = b]

HaversineCall ==
    /\ hav.phase = "args"
    /\ hav' = [hav EXCEPT
                 !.phase = "returned",
                 !.forth = haversine_distance(hav.a[1], hav.a[2], hav.b[1], hav.b[2]),
                 !.back = haversine_distance(hav.b[1], hav.b[2], hav.a[1], hav.a[2]),
                 !.self = haversine_distance(hav.a[1], hav.a[2], hav.a[1], hav.a[2])]
    /\ UNCHANGED <<events, sort_kind, joining, session_vars, resp, sorted, now, account_vars>>

NextHaversine == HaversineCall

SpecHaversine == InitHaversine /\ [][NextHaversine]_vars

(***************************************************************************)
(* The ranked path with the cap on the candidates as an argument, so that  *)
(* a table of a dozen events reaches it: CANDIDATE_LIMIT itself is one of  *)
(* the caps drawn.                                                         *)
(***************************************************************************)
MaxLimit == 3

LimitInputs == (1..MaxLimit) \cup {CANDIDATE_LIMIT}

\* The users whose request takes the ranked path
RankedUsers ==
    {u \in UserIds : Users[u].interests # <<>> /\ Users[u].pincode \in DOMAIN PincodeTable}

\* get_recommended_events on the ranked path with the candidates capped at limit
recommended_with_limit(db, user, page_in, size_in, kind, limit) ==
    LET page == NormalizePage(page_in)
        size == NormalizeSize(size_in)
        user_lat == PincodeTable[user.pincode].latitude
        user_lon == PincodeTable[user.pincode].longitude
        nearby_pincodes == NearbyPincodes(user_lat, user_lon)
    IN  Paged(page, size,
              RankedPage(db, LimitedCandidates(db, user, nearby_pincodes, limit),
                         user_lat, user_lon, page, size, kind))

RecommendWithLimit ==
    \E u \in RankedUsers, limit \in LimitInputs, page \in PageInputs, size \in SizeInputs :
        /\ Idle
        /\ resp' = Listed("recommended_with_limit", u, limit, page, size,
                          recommended_with_limit(events, Users[u], page, size,
                                                 sort_kind, limit))
        /\ UNCHANGED <<events, sort_kind, joining, session_vars, sorted, hav, now, account_vars>>

NextCap ==
    \/ RecommendWithLimit
    \/ JoinEvent
    \/ SendResponse

SpecCap == Init /\ [][NextCap]_vars

(***************************************************************************)
(* Properties                                                              *)
(***************************************************************************)
RECURSIVE Concat(_, _, _)
\* page(1) \o page(2) \o ... \o page(n), from page k on
Concat(page(_), k, n) == IF k > n THEN <<>> ELSE page(k) \o Concat(page, k + 1, n)

NoDuplicates(seq) == \A i, j \in 1..Len(seq) : seq[i] = seq[j] => i = j

Range(seq) == {seq[i] : i \in 1..Len(seq)}

Recommended == resp.op = "recommended_events"

Listings == {"recommended_events", "search_events", "my_joined_events",
             "my_hosted_events", "events_by_category"}

\* The requester's pincode has a row in the pincodes table
Located(user) == user.pincode \in DOMAIN PincodeTable

\* The request takes the ranked path: interests, a located user, a pincode nearby
RankedPath(user) ==
    /\ user.interests # <<>>
    /\ Located(user)
    /\ NearbyPincodes(PincodeTable[user.pincode].latitude,
                      PincodeTable[user.pincode].longitude) # {}

\* The distance, in metres, of the event with this id from the user's coordinate
EventDistance(db, user, event_id) ==
    LET e == db[CHOOSE i \in 1..Len(db) : db[i].id = event_id]
    IN  Distance(PincodeTable[user.pincode].latitude,
                           PincodeTable[user.pincode].longitude,
                           PincodeTable[e.pincode].latitude,
                           PincodeTable[e.pincode].longitude)

\* The ranked sequence of a user on the ranked path: the candidates within the radius
RankedSequence(db, user) ==
    LET user_lat == PincodeTable[user.pincode].latitude
        user_lon == PincodeTable[user.pincode].longitude
    IN  SortedEventsDf(CandidateEvents(db, user, NearbyPincodes(user_lat, user_lon)),
                       user_lat, user_lon, sort_kind)

NonDecreasing(distances) ==
    \A i \in 1..(Len(distances) - 1) : distances[i] <= distances[i + 1]

\* What a direct call of sort_events_by_distance was given and must return
SortRefLat == PincodeTable[sorted.user_pincode].latitude
SortRefLon == PincodeTable[sorted.user_pincode].longitude
SortInRadius ==
    {i \in 1..Len(sorted.events_df) :
        /\ sorted.events_df[i].pincode \in DOMAIN PincodeTable
        /\ Distance(SortRefLat, SortRefLon,
                              PincodeTable[sorted.events_df[i].pincode].latitude,
                              PincodeTable[sorted.events_df[i].pincode].longitude)
               <= sorted.max_distance}

\* C1: the output of sort_events_by_distance holds exactly the candidates whose
\* pincode has a coordinate and whose distance from the reference point is at most
\* the radius, the distance equal to the radius included, each of them once, and
\* no row farther than the radius.
C1_ExactlyWithinRadius ==
    sorted.phase = "returned" =>
        /\ Range(Ids(sorted.result)) = {sorted.events_df[i].id : i \in SortInRadius}
        /\ Len(sorted.result) = Cardinality(SortInRadius)
        /\ \A k \in 1..Len(sorted.result) :
              sorted.result[k].Distance_km <= sorted.max_distance

\* A call with the handler's radius or another, where one candidate lies exactly
\* on the radius and is returned and a located candidate lies beyond it
C1_Witness ==
    /\ sorted.phase = "returned"
    /\ sorted.max_distance > 0
    /\ \E k \in 1..Len(sorted.result) :
          sorted.result[k].Distance_km = sorted.max_distance
    /\ \E i \in 1..Len(sorted.events_df) :
          /\ sorted.events_df[i].pincode \in DOMAIN PincodeTable
          /\ i \notin SortInRadius

\* C2: the ranked sequence of sort_events_by_distance, and every page that
\* get_recommended_events returns from it, is non-decreasing in the distance from
\* the user's coordinate.
C2_NonDecreasing ==
    (Recommended /\ RankedPath(Users[resp.user])) =>
        LET user == Users[resp.user]
            ranked == RankedSequence(events, user)
        IN  /\ NonDecreasing([k \in 1..Len(ranked) |-> ranked[k].Distance_km])
            /\ NonDecreasing([k \in 1..Len(resp.events) |->
                                EventDistance(events, user, resp.events[k])])

\* A page of two events at different distances that the query gave in the other order
C2_Witness ==
    /\ Recommended
    /\ RankedPath(Users[resp.user])
    /\ Len(resp.events) >= 2
    /\ resp.events[1] > resp.events[2]
    /\ EventDistance(events, Users[resp.user], resp.events[1])
          < EventDistance(events, Users[resp.user], resp.events[2])

\* C3: the bounding-box prefilter of get_recommended_events excludes no pincode
\* whose haversine distance from the user's coordinate is at most 70 km.
C3_BoxHoldsTheCircle ==
    (Recommended /\ RankedPath(Users[resp.user])) =>
        LET user_lat == PincodeTable[Users[resp.user].pincode].latitude
            user_lon == PincodeTable[Users[resp.user].pincode].longitude
        IN  \A r \in PincodeRows :
                Distance(user_lat, user_lon, r.latitude, r.longitude)
                    <= max_distance_km
                => r.pincode \in NearbyPincodes(user_lat, user_lon)

\* C4: candidates at equal distance keep their input order in the output of
\* sort_events_by_distance (the ids of a frame are its input order).
C4_TiesKeepInputOrder ==
    sorted.phase = "returned" =>
        \A i, j \in 1..Len(sorted.result) :
            (i < j /\ sorted.result[i].Distance_km = sorted.result[j].Distance_km)
            => sorted.result[i].id < sorted.result[j].id

\* C5: on the ranked path, total_pages is ceil(n / size) for the length n of the
\* ranked sequence, and 0 when that sequence is empty, whatever page is asked for.
C5_TotalPagesOfRanked ==
    (Recommended /\ RankedPath(Users[resp.user])) =>
        LET n == Len(RankedSequence(events, Users[resp.user]))
        IN  resp.total_pages = IF n = 0 THEN 0 ELSE CeilDiv(n, resp.size)

\* C6: for a fixed size and unchanged data, the pages 1..total_pages of
\* get_recommended_events, one after the other, are the ranked sequence: every ranked
\* event once, none skipped, in ranked order.
C6_PagesRebuildRanked ==
    (Recommended /\ RankedPath(Users[resp.user]) /\ resp.page = 1) =>
        LET user == Users[resp.user]
            page(k) == get_recommended_events(events, user, k, resp.size, sort_kind).events
            pages == Concat(page, 1, resp.total_pages)
        IN  /\ page(1) = resp.events
            /\ pages = Ids(RankedSequence(events, user))
            /\ NoDuplicates(pages)

\* A first page of a ranked sequence that takes more than one page
C6_Witness ==
    /\ Recommended
    /\ RankedPath(Users[resp.user])
    /\ resp.page = 1
    /\ resp.total_pages >= 2
    /\ Len(RankedSequence(events, Users[resp.user])) > resp.size
    /\ Len(resp.events) = resp.size

\* The sequence get_recommended_events pages through: the ranked sequence, or the
\* filtered events when it falls back
PagedSequence(db, user) ==
    IF RankedPath(user) THEN Ids(RankedSequence(db, user)) ELSE Ids(EventsQuery(db, user))

\* C7: a page number greater than the number of pages gives an empty events list and
\* no error.
C7_PageBeyondIsEmpty ==
    (Recommended /\ resp.page > CeilDiv(Len(PagedSequence(events, Users[resp.user])), resp.size)) =>
        /\ resp.events = <<>>
        /\ resp.status = 200

\* A page beyond the last page of a sequence that is not empty
C7_Witness ==
    /\ Recommended
    /\ PagedSequence(events, Users[resp.user]) # <<>>
    /\ resp.page > CeilDiv(Len(PagedSequence(events, Users[resp.user])), resp.size)
    /\ resp.page > resp.total_pages
    /\ resp.status = 200

\* C8: every paginated listing uses page = max(1, page) and
\* size = min(200, max(1, size)) and rejects no request for its page or size.
C8_PageAndSizeClamped ==
    resp.op \in Listings =>
        /\ resp.page = Max(1, resp.page_in)
        /\ resp.size = Min(200, Max(1, resp.size_in))
        /\ resp.status = 200
        /\ Len(resp.events) <= resp.size

\* A listing other than the recommendations, asked with a negative page and an
\* oversized size
C8_Witness ==
    /\ resp.op \in Listings \ {"recommended_events"}
    /\ resp.page_in < 0
    /\ resp.size_in > 200
    /\ resp.page = 1
    /\ resp.size = 200
    /\ resp.events # <<>>

\* C9: when the requester's pincode has no row in the pincodes table,
\* get_recommended_events answers with the page (offset (page-1)*size, limit size) of
\* the filtered events, unranked, and total_pages = ceil(total / size), or 0.
C9_FallbackPage ==
    (Recommended /\ ~Located(Users[resp.user])) =>
        LET rows == Ids(EventsQuery(events, Users[resp.user]))
            offset == (resp.page - 1) * resp.size
        IN  /\ resp.status = 200
            /\ resp.events = [k \in 1..Max(0, Min(resp.size, Len(rows) - offset)) |->
                                rows[offset + k]]
            /\ resp.total_pages = IF Len(rows) > 0 THEN CeilDiv(Len(rows), resp.size) ELSE 0

\* The second page of the fallback of a user with no located pincode
C9_Witness ==
    /\ Recommended
    /\ ~Located(Users[resp.user])
    /\ resp.page = 2
    /\ resp.events # <<>>
    /\ resp.total_pages = 2

\* The candidate set of a request: the candidate events of the ranked path, the
\* filtered events otherwise
CandidateSet(db, user) ==
    IF RankedPath(user)
    THEN CandidateEvents(db, user, NearbyPincodes(PincodeTable[user.pincode].latitude,
                                                  PincodeTable[user.pincode].longitude))
    ELSE EventsQuery(db, user)

\* C10: with an empty candidate set get_recommended_events returns no events and
\* total_pages = 0, for any page and size, and no error.
C10_NoCandidates ==
    (Recommended /\ CandidateSet(events, Users[resp.user]) = <<>>) =>
        /\ resp.events = <<>>
        /\ resp.total_pages = 0
        /\ resp.status = 200

\* A located user with interests whose only nearby event they have joined, asking
\* for a later page
C10_Witness ==
    /\ Recommended
    /\ RankedPath(Users[resp.user])
    /\ CandidateSet(events, Users[resp.user]) = <<>>
    /\ EventsQuery(events, Users[resp.user]) # <<>>
    /\ \E i \in 1..Len(events) : resp.user \in events[i].participants
    /\ resp.page_in > 1
    /\ resp.total_pages = 0

\* The call of sort_events_by_distance that sorted records, on another frame
SortOf(events_df) ==
    sort_events_by_distance(events_df, PincodeRows, SortRefLat, SortRefLon,
                            sorted.max_distance, sort_kind)

\* C11: a candidate whose pincode has no row in the pincode table is left out of the
\* output of sort_events_by_distance without an error: no output row has such a
\* pincode, and the output is the one the call gives without those candidates.
C11_UnlocatedDropped ==
    sorted.phase = "returned" =>
        LET located(row) == row.pincode \in DOMAIN PincodeTable
        IN  /\ \A k \in 1..Len(sorted.result) : located(sorted.result[k])
            /\ \A i \in 1..Len(sorted.events_df) :
                  ~located(sorted.events_df[i])
                  => sorted.events_df[i].id \notin Range(Ids(sorted.result))
            /\ sorted.result = SortOf(SelectSeq(sorted.events_df, located))

\* A call with a candidate of unknown pincode between two located candidates in range
C11_Witness ==
    /\ sorted.phase = "returned"
    /\ Len(sorted.events_df) = 3
    /\ sorted.events_df[2].pincode = PIN_UNKNOWN
    /\ Len(sorted.result) = 2

\* The stored event with this id
Stored(db, event_id) == db[CHOOSE i \in 1..Len(db) : db[i].id = event_id]

\* The event is open to the user: active, after today, not theirs, not joined
OpenTo(e, user) ==
    /\ e.is_active
    /\ e.date > Today
    /\ e.host_id # user.id
    /\ user.id \notin e.participants

\* C12: every event that get_recommended_events returns, ranked or not, is active,
\* dated after today, not hosted and not joined by the requester, and its category
\* equals, ignoring case, one of the requester's interests with the interest's
\* leading and trailing blanks removed.
C12_OnlyFilteredEvents ==
    Recommended =>
        \A k \in 1..Len(resp.events) :
            LET e == Stored(events, resp.events[k])
                user == Users[resp.user]
            IN  /\ OpenTo(e, user)
                /\ \E i \in 1..Len(user.interests) :
                      Lower(e.category) = Lower(Strip(user.interests[i]))

\* A page for a user who hosts one matching event and has joined another
C12_Witness ==
    /\ Recommended
    /\ resp.events # <<>>
    /\ \E i, j \in 1..Len(events) :
          /\ events[i].host_id = resp.user
          /\ Lower(events[i].category) \in LoweredInterests(Users[resp.user])
          /\ resp.user \in events[j].participants
          /\ Lower(events[j].category) \in LoweredInterests(Users[resp.user])

\* C12 as first stated: the category of every returned event equals, ignoring case,
\* one of the requester's interests as they are stored.
C12_CategoryIsAnInterest ==
    Recommended =>
        \A k \in 1..Len(resp.events) :
            LET e == Stored(events, resp.events[k])
                user == Users[resp.user]
            IN  /\ OpenTo(e, user)
                /\ \E i \in 1..Len(user.interests) :
                      Lower(e.category) = Lower(user.interests[i])

\* The rows of the candidate query of a ranked-path user, before the cap, in query order
QueryRows(db, user) ==
    LET nearby_pincodes == NearbyPincodes(PincodeTable[user.pincode].latitude,
                                          PincodeTable[user.pincode].longitude)
        nearby(e) == e.pincode \in nearby_pincodes
    IN  SelectSeq(EventsQuery(db, user), nearby)

\* C13: get_recommended_events considers at most CANDIDATE_LIMIT = 5000 candidates, and
\* the cap cuts the candidate query before distances are computed: with the cap at
\* limit rows, every page holds only events among the first limit rows of the query,
\* total_pages counts at most limit rows, and with limit = CANDIDATE_LIMIT the answer
\* is the handler's.
C13_CapBeforeRanking ==
    /\ CANDIDATE_LIMIT = 5000
    /\ resp.op = "recommended_with_limit" =>
        LET user == Users[resp.user]
            limit == resp.arg
            rows == QueryRows(events, user)
            first == {rows[i].id : i \in 1..Min(limit, Len(rows))}
            page(k) == recommended_with_limit(events, user, k, resp.size,
                                              sort_kind, limit).events
        IN  /\ Range(resp.events) \subseteq first
            /\ \A k \in 1..(MaxPage + 1) : Range(page(k)) \subseteq first
            /\ resp.total_pages <= CeilDiv(limit, resp.size)
            /\ Len(CandidateEvents(events, user,
                      NearbyPincodes(PincodeTable[user.pincode].latitude,
                                     PincodeTable[user.pincode].longitude))) <= 5000
            /\ limit = CANDIDATE_LIMIT =>
                  Listed("recommended_with_limit", resp.user, limit, resp.page_in,
                         resp.size_in,
                         get_recommended_events(events, user, resp.page_in,
                                                resp.size_in, sort_kind)) = resp

\* A capped request that returns an event while a row beyond the cap is strictly
\* closer to the user and within the radius
C13_Witness ==
    /\ resp.op = "recommended_with_limit"
    /\ resp.arg < Len(QueryRows(events, Users[resp.user]))
    /\ resp.events # <<>>
    /\ \E i \in (resp.arg + 1)..Len(QueryRows(events, Users[resp.user])) :
          /\ EventDistance(events, Users[resp.user],
                           QueryRows(events, Users[resp.user])[i].id)
                < EventDistance(events, Users[resp.user], resp.events[1])
          /\ \A k \in 1..(MaxPage + 1) :
                QueryRows(events, Users[resp.user])[i].id \notin
                    Range(recommended_with_limit(events, Users[resp.user], k, resp.size,
                                                 sort_kind, resp.arg).events)

\* C14: haversine_distance is symmetric: the distance from a to b is the distance
\* from b to a (equal to the metre, which is within any relative tolerance).
C14_Symmetric ==
    hav.phase = "returned" => hav.forth = hav.back

\* Two points of different latitude and longitude, more than 1000 km apart
C14_Witness ==
    /\ hav.phase = "returned"
    /\ hav.a[1] # hav.b[1]
    /\ hav.a[2] # hav.b[2]
    /\ Abs(hav.a[1]) # Abs(hav.b[1])
    /\ hav.forth > 1000000
    /\ hav.back > 1000000

\* Two events at the distances of b and of a from a, filtered at radius r and sorted
SelfAndOther(r) ==
    SortValues(FilterByDistance(<<[id |-> 1, Distance_km |-> hav.forth],
                                  [id |-> 2, Distance_km |-> hav.self]>>, r),
               sort_kind)

\* C15: haversine_distance(a, a) = 0 for every coordinate a, so an event at the user's
\* own coordinate has distance 0, passes the filter of every radius r >= 0 and has no
\* event of a larger distance before it in the ranking.
C15_ZeroAtSelf ==
    hav.phase = "returned" =>
        /\ hav.self = 0
        /\ \A r \in {0, 1, max_distance_km, hav.forth} :
              LET ranked == SelfAndOther(r)
              IN  /\ \E k \in 1..Len(ranked) : ranked[k].id = 2
                  /\ \A k \in 1..Len(ranked) :
                        ranked[k].id = 2 =>
                            \A j \in 1..(k - 1) :
                                ranked[j].Distance_km <= ranked[k].Distance_km

\* A point away from the equator and the prime meridian, with another point within
\* 70 km of it that is listed before it in the input
C15_Witness ==
    /\ hav.phase = "returned"
    /\ hav.a[1] # 0
    /\ hav.a[2] # 0
    /\ hav.self = 0
    /\ hav.forth > 0
    /\ hav.forth <= max_distance_km
    /\ Len(SelfAndOther(max_distance_km)) = 2
    /\ SelfAndOther(max_distance_km)[1].id = 2

\* C16: cancel_event succeeds, and sets is_active to False, only when the clock is
\* more than 12 hours before the event's start (date and time combined); for the host
\* of an active event that has started or starts within 12 hours it answers 400 and
\* the event stays active.
C16_CancelOnlyEarly ==
    (resp.op = "cancel_event" /\ EventById(events, resp.arg) # {}) =>
        LET e == Stored(events, resp.arg)
            early == now < EventDt(e) - TWELVE_HOURS
        IN  /\ resp.status = 200 => (early /\ ~e.is_active /\ e.host_id = resp.user)
            /\ resp.status = 400 => (~early /\ e.is_active /\ e.host_id = resp.user)
            /\ (e.is_active /\ e.host_id = resp.user) => (resp.status = 400 /\ ~early)

\* The host is refused at exactly 12 hours before the start, the event still active
C16_Witness ==
    /\ resp.op = "cancel_event"
    /\ resp.status = 400
    /\ EventById(events, resp.arg) # {}
    /\ now = EventDt(Stored(events, resp.arg)) - TWELVE_HOURS
    /\ Stored(events, resp.arg).is_active
    /\ \E i \in 1..Len(events) : ~events[i].is_active /\ SeedEvents[i].is_active

HostOperations == {"edit_event", "cancel_event"}

\* C17: edit_event and cancel_event called by a user who is not the host of the event
\* change no field of any stored event, and answer 403 when the event is active, 404
\* when it is cancelled.
C17_OnlyHostChanges ==
    [][(Idle /\ resp'.op \in HostOperations /\ EventById(events, resp'.arg) # {}
             /\ Stored(events, resp'.arg).host_id # resp'.user)
       => /\ events' = events
          /\ resp'.status = IF Stored(events, resp'.arg).is_active THEN 403 ELSE 404]_vars

\* A user who is not the host is refused an edit that would change the active event
C17_Witness ==
    /\ resp.op = "edit_event"
    /\ resp.status = 403
    /\ Stored(events, resp.arg).is_active
    /\ Stored(events, resp.arg).host_id # resp.user
    /\ \E f \in DOMAIN resp.form : Stored(events, resp.arg)[f] # resp.form[f]
    /\ \E i \in 1..Len(events) : events[i].category # SeedEvents[i].category

\* C17 as first stated: every edit_event or cancel_event of a stored event by a user
\* who is not its host is answered 403.
C17_NonHostGets403 ==
    (resp.op \in HostOperations /\ EventById(events, resp.arg) # {}
        /\ Stored(events, resp.arg).host_id # resp.user)
    => resp.status = 403

AdminOperations == {"list_users", "clear_db"}

\* C18: list_users and clear_db are permitted when the application runs in debug mode
\* or when the caller's username is "admin", and are refused with 403, with no row
\* read or deleted, in every other case.
C18_DebugOrAdmin ==
    resp.op \in AdminOperations =>
        IF debug \/ resp.username = AdminName
        THEN resp.status = 200
        ELSE /\ resp.status = 403
             /\ DOMAIN accounts = UserIds
             /\ Len(events) = Len(SeedEvents)
             /\ resp.op = "list_users" => resp.users = {}

\* The rows of the otps table with this email that are not verified
Unverified(table, email) == {r \in table : r.email = email /\ ~r.is_verified}

GenerateOperations == {"generate_otp", "forgot_password"}

\* C19: after any sequence of generate, forgot-password, verify and reset-password
\* calls each email has at most one unverified OTP row, no row of the email is newer
\* than it, and right after a generation for the email it is the row just generated.
C19_OneUnverifiedOtp ==
    /\ \A r \in otps :
          /\ Cardinality(Unverified(otps, r.email)) <= 1
          /\ \A u \in Unverified(otps, r.email) : r.id <= u.id
    /\ (resp.op \in GenerateOperations /\ resp.status # 400) =>
          /\ Cardinality(Unverified(otps, resp.email)) = 1
          /\ \A u \in Unverified(otps, resp.email) : u.id = otp_seq

\* The third OTP of an email has just been generated by forgot-password: the first was
\* verified and is kept, the second was never verified and is gone
C19_Witness ==
    /\ resp.op = "forgot_password"
    /\ resp.status # 400
    /\ otp_seq = 3
    /\ Cardinality(Unverified(otps, resp.email)) = 1
    /\ {r.id : r \in {r \in otps : r.email = resp.email}} = {1, 3}

\* The password hashes of the users table
Passwords(users) == [u \in DOMAIN users |-> users[u].hashed_password]

\* C20: a reset_password succeeds only if a verified OTP row of the user's email is
\* stored, and then no OTP row of that email is left; without one it answers 400 and
\* no password and no OTP row changes; and a row becomes verified only in a successful
\* otp/verify for its email.  So every successful reset follows a successful
\* verification for the email that no earlier reset has used up.
C20_ResetNeedsVerifiedOtp ==
    [][/\ (Idle /\ resp'.op = "reset_password") =>
            IF VerifiedRows(otps, resp'.email) # {} /\ FindUser(accounts, resp'.email) # {}
            THEN /\ resp'.status = 200
                 /\ \A r \in otps' : r.email # resp'.email
            ELSE /\ resp'.status = 400
                 /\ Passwords(accounts') = Passwords(accounts)
                 /\ otps' = otps
       /\ \A r \in otps' :
            (r.is_verified /\ r \notin otps) =>
                /\ resp'.op = "verify_otp"
                /\ resp'.status = 200
                /\ resp'.email = r.email
                /\ \E q \in otps : q.id = r.id /\ q.email = r.email /\ ~q.is_verified
       /\ Passwords(accounts') # Passwords(accounts) =>
            \/ (resp'.op = "reset_password" /\ resp'.status = 200)
            \/ (resp'.op = "clear_db" /\ resp'.status = 200)]_vars

\* A second reset for the same user has just been refused: the password was reset
\* once and the reset left no OTP row of the email
C20_Witness ==
    /\ resp.op = "reset_password"
    /\ resp.status = 400
    /\ \E u \in FindUser(accounts, resp.email) :
          accounts[u].hashed_password = get_password_hash("pw1")
    /\ \A r \in otps : r.email # resp.email

(***************************************************************************)
(* C21.  For every event, in every state reached by create_event,          *)
(* join_event, leave_event and edit_event calls, the number of             *)
(* participants does not exceed max_attendees.                             *)
(***************************************************************************)
C21_ParticipantsWithinMax ==
    \A i \in 1..Len(events) :
        Cardinality(events[i].participants) <= events[i].max_attendees

(***************************************************************************)
(* C22.  When different users issue join_event at the same time for an     *)
(* event with exactly one free slot, at most one of the requests succeeds  *)
(* and the participant count never exceeds max_attendees.                  *)
(***************************************************************************)
C22_OneSlotOneJoin ==
    \A i \in 1..Len(events) :
        LET joined == {r \in joining : r.event_id = events[i].id /\ r.status = 200}
        IN  /\ Cardinality(joined) <= 1
            /\ Cardinality(events[i].participants) <= events[i].max_attendees

(***************************************************************************)
(* C23.  After any sequence of register, login and logout calls each user  *)
(* has at most 4 refresh tokens that are neither blacklisted nor expired,  *)
(* and a login that finds 4 or more of them deletes one with the earliest  *)
(* expires_at and stores the new one.                                      *)
(***************************************************************************)
TokenUsers(table) == {t.user_id : t \in table}

C23_AtMostFourActive ==
    [][/\ \A u \in TokenUsers(tokens') :
             Cardinality(ActiveTokens(tokens', u, now')) <= 4
       /\ \A u \in DOMAIN accounts :
             (/\ resp.op = "none"
              /\ resp'.op = "login"
              /\ resp'.status = 200
              /\ resp'.access = u
              /\ Cardinality(ActiveTokens(tokens, u, now)) >= 4)
             => \E o \in ActiveTokens(tokens, u, now) :
                   /\ \A t \in ActiveTokens(tokens, u, now) : o.expires_at <= t.expires_at
                   /\ tokens' = (tokens \ {o}) \cup
                                  {[id |-> token_seq + 1, token |-> resp'.cookie,
                                    user_id |-> u,
                                    expires_at |-> now + refresh_token_expire_days * 24 * 60,
                                    is_blacklisted |-> FALSE]}]_vars

\* A login has just rotated: the user holds 4 active tokens and an earlier one is gone
C23_Witness ==
    /\ resp.op = "login"
    /\ resp.status = 200
    /\ Cardinality(ActiveTokens(tokens, resp.access, now)) = 4
    /\ \E k \in 1..token_seq : \A t \in tokens : t.id # k

(***************************************************************************)
(* C24.  Once logout has been called with a stored refresh token, every    *)
(* later refresh with that token answers 401 and issues no access token:   *)
(* logout blacklists the row, no step takes a row off the blacklist or     *)
(* stores a token again, and refresh refuses a cookie that has no row off  *)
(* the blacklist, as is the case of a token deleted by the rotation.       *)
(***************************************************************************)
C24_LoggedOutStaysOut ==
    [][/\ \A t \in tokens : t.is_blacklisted => t \in tokens'
       /\ \A t \in tokens' :
             (\A o \in tokens : o.token # t.token) => t.id > token_seq
       /\ (resp.op = "none" /\ resp'.op = "logout")
             => \A t \in tokens' : t.token = resp'.cookie => t.is_blacklisted
       /\ (/\ resp.op = "none"
           /\ resp'.op = "refresh"
           /\ \A t \in tokens : t.token = resp'.cookie => t.is_blacklisted)
             => resp'.status = 401 /\ resp'.access = 0]_vars

\* A refresh with a token that verifies and was logged out has been refused
C24_Witness ==
    /\ resp.op = "refresh"
    /\ resp.verified
    /\ resp.status = 401
    /\ \E t \in tokens : t.token = resp.cookie /\ t.is_blacklisted

(***************************************************************************)
(* C25.  The host of an event is never one of its participants, in every   *)
(* state reached through join_event, leave_event and edit_event; a         *)
(* join_event by the host answers 400 and leaves the participants as they  *)
(* were.                                                                   *)
(***************************************************************************)
C25_HostNeverParticipant ==
    [][/\ \A i \in 1..Len(events') : events'[i].host_id \notin events'[i].participants
       /\ (/\ resp.op = "none"
           /\ resp'.op = "join_event"
           /\ EventById(events, resp'.arg) # {}
           /\ Stored(events, resp'.arg).host_id = resp'.user)
             => /\ resp'.status = 400
                /\ \A i \in 1..Len(events) :
                      events'[i].participants = events[i].participants]_vars

\* The host was refused on an active event of theirs that has room
C25_Witness ==
    /\ resp.op = "join_event"
    /\ resp.status = 400
    /\ Stored(events, resp.arg).host_id = resp.user
    /\ Stored(events, resp.arg).is_active
    /\ Cardinality(Stored(events, resp.arg).participants)
          < Stored(events, resp.arg).max_attendees
====
